---- MODULE Spec2Model ----
(***************************************************************************)
(* Model of llama32/train.py: a linear LoRA fine-tuning script.  Every     *)
(* statement of the script is one step of the state machine; a statement   *)
(* that raises ends the process.  The delegated calls (peft, datasets,     *)
(* transformers) are modelled by what the call made on that line does.     *)
(***************************************************************************)
EXTENDS Integers, Sequences, FiniteSets, TLC

VARIABLES pc,            \* statement of the script about to run, or done/crashed
          exitCode,      \* -1 while running, then the process exit code
          failedAt,      \* statement that raised ("none" when nothing raised)
          error,         \* kind of the exception that ended the process
          executed,      \* statements that have completed, in order
          modelLayers,   \* linear layers of the checkpoint fetched from the hub
          params,        \* model parameters: key -> [value, requires_grad]; a value
                         \* stands for the tensor's content, numbers modulo ValMod
          dataset,       \* loaded dataset: [columns, rows]
          mapBatchSize,  \* batch_size of the running Dataset.map (0 before it)
          mapped,        \* rows Dataset.map has written so far
          tokenized,     \* rows of tokenized_dataset["train"]
          tokenizeCalls, \* number of batches tokenize() was called on
          global_step,   \* optimization steps done
          epoch,         \* epochs completed
          cursor,        \* examples of the current epoch already consumed
          logs,          \* log records emitted by the Trainer
          checkpoints,   \* checkpoints under ./results
          adapter_model  \* content of ./adapter_model

vars == <<pc, exitCode, failedAt, error, executed, modelLayers, params, dataset,
          mapBatchSize, mapped, tokenized, tokenizeCalls, global_step, epoch, cursor,
          logs, checkpoints, adapter_model>>

procVars == <<exitCode, failedAt, error>>
mapVars == <<mapBatchSize, mapped, tokenized, tokenizeCalls>>
trainVars == <<global_step, epoch, cursor, logs, checkpoints>>

----------------------------------------------------------------------------
(* Bounds of the model *)
MaxRecords == 3
LargeRecords == 334
MaxMapBatch == 2
ValMod == 2

(* Hyper-parameters hard-coded in the script *)
per_device_train_batch_size == 2
num_train_epochs == 3
logging_steps == 10
save_steps == 500

lora_config ==
  [r |-> 16, lora_alpha |-> 32, target_modules |-> {"q_proj", "v_proj"},
   bias |-> "none", task_type |-> "CAUSAL_LM"]

adapter_name == "default"

Min(a, b) == IF a < b THEN a ELSE b

----------------------------------------------------------------------------
(* Inputs the environment supplies *)

\* layer sets a hub checkpoint may have; o_proj stands for the untargeted layers
LayerSets == {S \cup {"o_proj"} : S \in SUBSET {"q_proj", "v_proj"}}

\* lines of dataset.jsonl: JSON objects, some lacking a field
JsonRecords ==
  { [instruction |-> <<1>>, response |-> <<2>>],
    [instruction |-> <<2>>, response |-> <<1>>],
    [instruction |-> <<1>>],
    [response |-> <<1>>] }

\* a file of n complete records
UniformFile(n) == [i \in 1..n |-> [instruction |-> <<1>>, response |-> <<2>>]]

\* every file of up to MaxRecords lines, a file of 4 complete records, and one
\* long enough for training to pass step save_steps
DatasetFiles ==
  (UNION {[1..n -> JsonRecords] : n \in 1..MaxRecords})
    \cup {UniformFile(4), UniformFile(LargeRecords)}

\* Dataset.map's batch_size; 1000 is the default the script runs with
MapBatchSizes == (1..MaxMapBatch) \cup {1000}

\* values a freshly initialised lora_A may take (no seed is fixed)
InitVals == 1..(ValMod - 1)

----------------------------------------------------------------------------
(* Statement order of the script *)
\* mutation: the save statement placed before the training call
NextPcSaveBeforeTrain(s) ==
  CASE s = "load_tokenizer" -> "load_model"
    [] s = "load_model"     -> "lora_config"
    [] s = "lora_config"    -> "get_peft_model"
    [] s = "get_peft_model" -> "load_dataset"
    [] s = "load_dataset"   -> "map_tokenize"
    [] s = "map_tokenize"   -> "training_args"
    [] s = "training_args"  -> "trainer"
    [] s = "trainer"        -> "save"
    [] s = "save"           -> "train"
    [] s = "train"          -> "done"


NextPc(s) ==
  CASE s = "load_tokenizer" -> "load_model"
    [] s = "load_model"     -> "lora_config"
    [] s = "lora_config"    -> "get_peft_model"
    [] s = "get_peft_model" -> "load_dataset"
    [] s = "load_dataset"   -> "map_tokenize"
    [] s = "map_tokenize"   -> "training_args"
    [] s = "training_args"  -> "trainer"
    [] s = "trainer"        -> "train"
    [] s = "train"          -> "save"
    [] s = "save"           -> "done"

Advance == /\ pc' = NextPc(pc)
           /\ executed' = Append(executed, pc)

NoParams == [k \in {} |-> [value |-> 0, requires_grad |-> FALSE]]
NoDataset == [columns |-> {}, rows |-> <<>>]
NotWritten == [written |-> FALSE, weights |-> <<>>, config |-> <<>>]

Init ==
  /\ pc = "load_tokenizer"
  /\ exitCode = -1
  /\ failedAt = "none"
  /\ error = "none"
  /\ executed = <<>>
  /\ modelLayers = {}
  /\ params = NoParams
  /\ dataset = NoDataset
  /\ mapBatchSize = 0
  /\ mapped = <<>>
  /\ tokenized = <<>>
  /\ tokenizeCalls = 0
  /\ global_step = 0
  /\ epoch = 0
  /\ cursor = 0
  /\ logs = {}
  /\ checkpoints = {}
  /\ adapter_model = NotWritten

\* line 9
LoadTokenizer ==
  /\ pc = "load_tokenizer"
  /\ Advance
  /\ UNCHANGED <<procVars, modelLayers, params, dataset, mapVars, trainVars,
                 adapter_model>>

----------------------------------------------------------------------------
(* Parameters.  A key names one tensor of the model's state dict. *)
ParamKey(layer, part, adapter) == [layer |-> layer, part |-> part, adapter |-> adapter]

IsLora(k) == k.part \in {"lora_A.weight", "lora_B.weight"}

\* AutoModelForCausalLM.from_pretrained: one weight per layer, all trainable
FromPretrainedBase(layers) ==
  [k \in {ParamKey(L, "weight", "") : L \in layers}
     |-> [value |-> 1, requires_grad |-> TRUE]]

\* line 10
LoadModel ==
  /\ pc = "load_model"
  /\ \E layers \in LayerSets :
       /\ modelLayers' = layers
       /\ params' = FromPretrainedBase(layers)
  /\ Advance
  /\ UNCHANGED <<procVars, dataset, mapVars, trainVars, adapter_model>>

\* lines 13-20: LoraConfig(...) builds the configuration, nothing else
MakeLoraConfig ==
  /\ pc = "lora_config"
  /\ Advance
  /\ UNCHANGED <<procVars, modelLayers, params, dataset, mapVars, trainVars,
                 adapter_model>>

\* mutation: every linear layer is targeted, whatever target_modules names
TargetedLayersAllLinear(layers, cfg) == layers

\* layers of the model a name of target_modules matches
TargetedLayers(layers, cfg) == {L \in layers : L \in cfg.target_modules}

\* the adapter is attached to every targeted layer: the layer's weight becomes
\* base_layer.weight, lora_A gets a random value a, lora_B starts at zero
InjectAdapter(p, layers, cfg, a) ==
  LET targeted == TargetedLayers(layers, cfg)
      keys == {ParamKey(L, IF L \in targeted THEN "base_layer.weight" ELSE "weight", "")
                 : L \in layers}
              \cup {ParamKey(L, part, adapter_name)
                      : L \in targeted, part \in {"lora_A.weight", "lora_B.weight"}}
  IN [k \in keys |->
        IF IsLora(k)
          THEN [value |-> IF k.part = "lora_A.weight" THEN a ELSE 0,
                requires_grad |-> TRUE]
          ELSE p[ParamKey(k.layer, "weight", "")]]

\* mutation: the base weights are left trainable
MarkNothingFrozen(p) == p

\* bias="none": every parameter without lora_ in its name is frozen
MarkOnlyAdaptersAsTrainable(p) ==
  [k \in DOMAIN p |->
     [p[k] EXCEPT !.requires_grad = IF IsLora(k) THEN p[k].requires_grad ELSE FALSE]]

\* mutation: the exception is swallowed and the script goes on
RaiseSwallowed(kind) ==
  /\ failedAt' = pc
  /\ error' = kind
  /\ pc' = NextPc(pc)
  /\ exitCode' = exitCode
  /\ UNCHANGED executed

\* mutation: the exception ends the process with exit code 0
RaiseExitZero(kind) ==
  /\ failedAt' = pc
  /\ error' = kind
  /\ pc' = "crashed"
  /\ exitCode' = 0
  /\ UNCHANGED executed


Raise(kind) ==
  /\ failedAt' = pc
  /\ error' = kind
  /\ pc' = "crashed"
  /\ exitCode' = 1
  /\ UNCHANGED executed

\* line 22: get_peft_model(model, lora_config)
GetPeftModel ==
  /\ pc = "get_peft_model"
  /\ IF TargetedLayers(modelLayers, lora_config) = {}
       THEN /\ Raise("ValueError")
            /\ UNCHANGED params
       ELSE /\ \E a \in InitVals :
                 params' = MarkOnlyAdaptersAsTrainable(
                             InjectAdapter(params, modelLayers, lora_config, a))
            /\ Advance
            /\ UNCHANGED procVars
  /\ UNCHANGED <<modelLayers, dataset, mapVars, trainVars, adapter_model>>

----------------------------------------------------------------------------
(* Dataset loading and tokenization *)
Cell(isNone, str) == [isNone |-> isNone, str |-> str]

\* load_dataset("json", ...): one column per field that occurs in the file, a
\* record lacking a field holds None in that column
load_dataset(file) ==
  LET columns == UNION {DOMAIN file[i] : i \in 1..Len(file)}
  IN [columns |-> columns,
      rows |-> [i \in 1..Len(file) |->
                 [c \in columns |-> IF c \in DOMAIN file[i]
                                      THEN Cell(FALSE, file[i][c])
                                      ELSE Cell(TRUE, <<>>)]]]

\* line 25
LoadDataset ==
  /\ pc = "load_dataset"
  /\ \E file \in DatasetFiles : dataset' = load_dataset(file)
  /\ Advance
  /\ UNCHANGED <<procVars, modelLayers, params, mapVars, trainVars, adapter_model>>

\* the tokenizer turns a text into token ids behind the begin-of-text token and
\* truncates them to the model's maximum length (truncation=True)
Encode(str) ==
  LET ids == <<128000>> \o str
  IN SubSeq(ids, 1, Min(Len(ids), 131072))

\* mutation: None is tokenized like the empty string
tokenizerNoneAsEmpty(text, text_target) ==
  [error |-> "none",
   input_ids |-> [i \in 1..Len(text) |-> Encode(text[i].str)],
   attention_mask |-> [i \in 1..Len(text) |->
                         [j \in 1..Len(Encode(text[i].str)) |-> 1]],
   labels |-> [i \in 1..Len(text_target) |-> Encode(text_target[i].str)]]

\* tokenizer(text, text_target=..., truncation=True) on two lists of strings
tokenizer(text, text_target) ==
  IF \/ \E i \in 1..Len(text) : text[i].isNone
     \/ \E i \in 1..Len(text_target) : text_target[i].isNone
    THEN [error |-> "TypeError", input_ids |-> <<>>, attention_mask |-> <<>>,
          labels |-> <<>>]
    ELSE [error |-> "none",
          input_ids |-> [i \in 1..Len(text) |-> Encode(text[i].str)],
          attention_mask |-> [i \in 1..Len(text) |->
                                [j \in 1..Len(Encode(text[i].str)) |-> 1]],
          labels |-> [i \in 1..Len(text_target) |-> Encode(text_target[i].str)]]

\* lines 29-30: tokenize(batch); batch[name] raises KeyError for a missing column
tokenize(columns, batch) ==
  IF "instruction" \notin columns \/ "response" \notin columns
    THEN [error |-> "KeyError", input_ids |-> <<>>, attention_mask |-> <<>>,
          labels |-> <<>>]
    ELSE tokenizer([i \in 1..Len(batch) |-> batch[i]["instruction"]],
                   [i \in 1..Len(batch) |-> batch[i]["response"]])

\* mutation: only the first row of each batch is kept
MergeColumnsFirstRow(batch, out) ==
  [i \in 1..Min(1, Len(batch)) |->
     ("input_ids" :> out.input_ids[i])
     @@ ("attention_mask" :> out.attention_mask[i])
     @@ ("labels" :> out.labels[i])
     @@ batch[i]]

\* the function's columns are added to the rows of the batch
MergeColumns(batch, out) ==
  [i \in 1..Len(batch) |->
     ("input_ids" :> out.input_ids[i])
     @@ ("attention_mask" :> out.attention_mask[i])
     @@ ("labels" :> out.labels[i])
     @@ batch[i]]

\* rows of the batch Dataset.map hands to the function on its next call
NextBatch(ds, calls, batch_size) ==
  SubSeq(ds.rows, calls * batch_size + 1,
         Min((calls + 1) * batch_size, Len(ds.rows)))

\* line 33: tokenized_dataset = dataset.map(tokenize, batched=True).  map cuts
\* the rows into consecutive batches of batch_size and calls tokenize on one
\* batch per step; an exception discards what was written, and the name
\* tokenized_dataset is bound only when the last batch is through
MapTokenize ==
  /\ pc = "map_tokenize"
  /\ \E batch_size \in MapBatchSizes :
       /\ mapBatchSize \in {0, batch_size}
       /\ mapBatchSize' = batch_size
       /\ LET batch == NextBatch(dataset, tokenizeCalls, batch_size)
              out == tokenize(dataset.columns, batch)
          IN /\ tokenizeCalls' = tokenizeCalls + 1
             /\ IF out.error # "none"
                  THEN /\ Raise(out.error)
                       /\ mapped' = <<>>
                       /\ UNCHANGED tokenized
                  ELSE /\ UNCHANGED procVars
                       /\ IF tokenizeCalls' * batch_size >= Len(dataset.rows)
                            THEN /\ tokenized' = mapped \o MergeColumns(batch, out)
                                 /\ mapped' = <<>>
                                 /\ Advance
                            ELSE /\ mapped' = mapped \o MergeColumns(batch, out)
                                 /\ UNCHANGED <<tokenized, pc, executed>>
  /\ UNCHANGED <<modelLayers, params, dataset, trainVars, adapter_model>>

----------------------------------------------------------------------------
(* Training *)

\* lines 36-44: TrainingArguments(...) builds the configuration, nothing else
MakeTrainingArguments ==
  /\ pc = "training_args"
  /\ Advance
  /\ UNCHANGED <<procVars, modelLayers, params, dataset, mapVars, trainVars,
                 adapter_model>>

\* lines 47-51: Trainer(model=..., args=..., train_dataset=...)
MakeTrainer ==
  /\ pc = "trainer"
  /\ Advance
  /\ UNCHANGED <<procVars, modelLayers, params, dataset, mapVars, trainVars,
                 adapter_model>>

\* len(train_dataloader): batches of per_device_train_batch_size, last one kept
DataLoaderLen(n) ==
  (n + per_device_train_batch_size - 1) \div per_device_train_batch_size

\* mutation: drop_last, an incomplete last batch is not yielded
BatchLenDropLast(n, used) ==
  IF n - used >= per_device_train_batch_size THEN per_device_train_batch_size ELSE 0

\* number of examples in the batch the dataloader yields after `used` examples
\* of the epoch were consumed; 0 when the epoch is exhausted
BatchLen(n, used) == Min(per_device_train_batch_size, n - used)

\* max_steps of the run: num_train_epochs passes over the dataloader
MaxSteps(n) == num_train_epochs * DataLoaderLen(n)

\* the optimizer gives every parameter that requires a gradient a new value,
\* and touches no other
OptimizerStep(p) ==
  [k \in DOMAIN p |->
     IF p[k].requires_grad
       THEN [p[k] EXCEPT !.value = (p[k].value + 1) % ValMod]
       ELSE p[k]]

\* mutation: the whole state dict is taken, base weights included
get_full_state_dict(p) ==
  [s \in {ParamKey(k.layer, k.part, "") : k \in DOMAIN p}
     |-> p[CHOOSE k \in DOMAIN p : k.layer = s.layer /\ k.part = s.part].value]

\* state dict of the adapter: the lora_ tensors, the adapter name removed from
\* their keys
get_peft_model_state_dict(p) ==
  LET lora == {k \in DOMAIN p : IsLora(k) /\ k.adapter = adapter_name}
  IN [s \in {ParamKey(k.layer, k.part, "") : k \in lora}
        |-> p[ParamKey(s.layer, s.part, adapter_name)].value]

\* logging_strategy="steps"
ShouldLog(step) == step % logging_steps = 0

\* mutation: the save cadence follows logging_steps
ShouldSaveAtLoggingSteps(step, max_steps) ==
  step % logging_steps = 0 \/ step >= max_steps

\* save_strategy="steps", and the step that ends training is saved as well
ShouldSave(step, max_steps) == step % save_steps = 0 \/ step >= max_steps

\* line 53, one optimization step of trainer.train()
TrainStep ==
  /\ pc = "train"
  /\ epoch < num_train_epochs
  /\ global_step < MaxSteps(Len(tokenized))
  /\ BatchLen(Len(tokenized), cursor) > 0
  /\ params' = OptimizerStep(params)
  /\ global_step' = global_step + 1
  /\ LET used == cursor + BatchLen(Len(tokenized), cursor)
     IN IF BatchLen(Len(tokenized), used) > 0
          THEN cursor' = used /\ epoch' = epoch
          ELSE cursor' = 0 /\ epoch' = epoch + 1
  /\ logs' = IF ShouldLog(global_step')
               THEN logs \cup {[step |-> global_step', kind |-> "loss"]}
               ELSE logs
  /\ checkpoints' =
       IF ShouldSave(global_step', MaxSteps(Len(tokenized)))
         THEN checkpoints \cup {[step |-> global_step',
                                 weights |-> get_peft_model_state_dict(params')]}
         ELSE checkpoints
  /\ UNCHANGED <<pc, executed, procVars, modelLayers, dataset, mapVars, adapter_model>>

\* line 53, the end of trainer.train(): the loop is over, the run's metrics are
\* logged and the call returns
TrainReturn ==
  /\ pc = "train"
  /\ epoch >= num_train_epochs \/ global_step >= MaxSteps(Len(tokenized))
  /\ logs' = logs \cup {[step |-> global_step, kind |-> "train_summary"]}
  /\ Advance
  /\ UNCHANGED <<procVars, modelLayers, params, dataset, mapVars, global_step, epoch,
                 cursor, checkpoints, adapter_model>>

----------------------------------------------------------------------------
(* Persistence and process end *)

\* model.save_pretrained(dir) writes the adapter's state dict and its config
save_pretrained(p, cfg) ==
  [written |-> TRUE, weights |-> get_peft_model_state_dict(p), config |-> cfg]

\* line 56, after which the script ends and the interpreter exits with code 0
SavePretrained ==
  /\ pc = "save"
  /\ adapter_model' = save_pretrained(params, lora_config)
  /\ Advance
  /\ exitCode' = 0
  /\ UNCHANGED <<failedAt, error, modelLayers, params, dataset, mapVars, trainVars>>

\* any delegated call may raise (authentication, missing model, out of memory,
\* unwritable path, ...); nothing catches it, the interpreter exits with code 1
Crash ==
  /\ pc \notin {"done", "crashed"}
  /\ Raise("RuntimeError")
  /\ UNCHANGED <<modelLayers, params, dataset, mapVars, trainVars, adapter_model>>

Next ==
  \/ LoadTokenizer
  \/ LoadModel
  \/ MakeLoraConfig
  \/ GetPeftModel
  \/ LoadDataset
  \/ MapTokenize
  \/ MakeTrainingArguments
  \/ MakeTrainer
  \/ TrainStep
  \/ TrainReturn
  \/ SavePretrained
  \/ Crash

Spec == Init /\ [][Next]_vars

\* the interpreter keeps executing: a statement that can run does run
FairSpec == Spec /\ WF_vars(Next)
----------------------------------------------------------------------------
(* Reloading a saved adapter *)

\* PeftModel.from_pretrained(base, dir): the adapter of the saved config is
\* injected into a freshly loaded base model (lora_A initialised to a), then
\* the saved tensors are loaded under the adapter's name
PeftModelFromPretrained(layers, dir, a) ==
  LET fresh == MarkOnlyAdaptersAsTrainable(
                 InjectAdapter(FromPretrainedBase(layers), layers, dir.config, a))
  IN [k \in DOMAIN fresh |->
        IF IsLora(k) /\ ParamKey(k.layer, k.part, "") \in DOMAIN dir.weights
          THEN [fresh[k] EXCEPT !.value = dir.weights[ParamKey(k.layer, k.part, "")]]
          ELSE fresh[k]]

----------------------------------------------------------------------------
(* Properties *)

StageOrder ==
  <<"load_tokenizer", "load_model", "lora_config", "get_peft_model", "load_dataset",
    "map_tokenize", "training_args", "trainer", "train", "save">>

Done(stage) == \E i \in 1..Len(executed) : executed[i] = stage

\* smallest k with k * d >= n
CeilDiv(n, d) == CHOOSE k \in 0..n : k * d >= n /\ (k - 1) * d < n

LoraKeys(p) == {k \in DOMAIN p : IsLora(k)}

\* a record of the file lacked instruction or response
HasMissingField(ds) ==
  /\ ds.rows # <<>>
  /\ \E c \in {"instruction", "response"} :
       \/ c \notin ds.columns
       \/ \E i \in 1..Len(ds.rows) : ds.rows[i][c].isNone

\* C1: the statements complete in the one order of the script, each at most
\* once and none skipped; the statement about to run is the successor of the
\* last completed one; ./adapter_model is written only after training has run
\* all its epochs and returned.
C1_StagesInFixedOrder ==
  /\ Len(executed) <= Len(StageOrder)
  /\ executed = SubSeq(StageOrder, 1, Len(executed))
  /\ pc \notin {"done", "crashed"} => pc = StageOrder[Len(executed) + 1]
  /\ pc = "done" => executed = StageOrder
  /\ adapter_model.written =>
       /\ Done("train")
       /\ epoch = num_train_epochs
       /\ global_step = num_train_epochs * CeilDiv(Len(tokenized), per_device_train_batch_size)

C1_Witness ==
  /\ pc = "done"
  /\ adapter_model.written
  /\ executed = StageOrder

\* C2: once a statement has raised, the process is over with a non-zero exit
\* code: the statements completed are exactly those before the failed one (it
\* was not retried, nothing after it ran), ./adapter_model is not written, and
\* ./results holds only checkpoints of steps the training loop had reached,
\* none at all when the failure came before training.
C2_FailFast ==
  failedAt # "none" =>
    /\ pc = "crashed"
    /\ exitCode = 1
    /\ \E i \in 1..Len(StageOrder) :
         /\ StageOrder[i] = failedAt
         /\ executed = SubSeq(StageOrder, 1, i - 1)
    /\ ~adapter_model.written
    /\ \A c \in checkpoints : c.step \in 1..global_step
    /\ failedAt \notin {"train", "save"} => (checkpoints = {} /\ global_step = 0)

C2_Witness ==
  /\ pc = "crashed"
  /\ failedAt = "train"
  /\ checkpoints # {}
  /\ ~adapter_model.written

\* C3: every run ends, either with the adapter saved and exit code 0 or with a
\* statement having raised and exit code 1; exit code 0 occurs exactly when
\* the adapter was saved.
C3_TerminatesWithOutcome ==
  /\ <>(exitCode \in {0, 1})
  /\ [](exitCode = 0 <=> adapter_model.written)
  /\ [](exitCode = 0 <=> pc = "done")
  /\ [](exitCode = 1 <=> failedAt # "none")
  /\ [](exitCode = 1 <=> pc = "crashed")

C3_Witness ==
  /\ exitCode = 0
  /\ pc = "done"
  /\ adapter_model.written

\* C4: when every record has both fields, tokenization raises no error of its
\* own and, once the map is through, there is exactly one tokenized example per
\* record, the i-th one made of the i-th record, whatever the batch grouping.
C4_CardinalityPreserved ==
  /\ (dataset.rows # <<>> /\ ~HasMissingField(dataset))
       => error \notin {"KeyError", "TypeError"}
  /\ Done("map_tokenize") =>
       /\ Len(tokenized) = Len(dataset.rows)
       /\ \A i \in 1..Len(tokenized) :
            /\ tokenized[i]["instruction"] = dataset.rows[i]["instruction"]
            /\ tokenized[i]["response"] = dataset.rows[i]["response"]
            /\ tokenized[i]["input_ids"] = Encode(dataset.rows[i]["instruction"].str)
            /\ tokenized[i]["labels"] = Encode(dataset.rows[i]["response"].str)

C4_Witness ==
  /\ Done("map_tokenize")
  /\ tokenizeCalls > 1
  /\ Len(tokenized) = 3
  /\ mapBatchSize = 2

\* C5: when a record lacks instruction or response, the map never completes:
\* no tokenized dataset is bound, no row written by the map comes from a
\* record with a missing field, training never starts, and the only statement
\* that can have raised is the map.
C5_MissingFieldFails ==
  HasMissingField(dataset) =>
    /\ pc \in {"map_tokenize", "crashed"}
    /\ ~Done("map_tokenize")
    /\ tokenized = <<>>
    /\ \A i \in 1..Len(mapped) :
         ~mapped[i]["instruction"].isNone /\ ~mapped[i]["response"].isNone
    /\ global_step = 0
    /\ failedAt \in {"none", "map_tokenize"}

C5_Witness ==
  /\ HasMissingField(dataset)
  /\ pc = "crashed"
  /\ failedAt = "map_tokenize"
  /\ error \in {"KeyError", "TypeError"}
  /\ tokenizeCalls > 1

\* C6 as stated: if some target name is not a layer of the model, injection
\* does not succeed and no adapter parameter is attached.
C6_AnyMissingTargetFails ==
  (modelLayers # {} /\ ~(lora_config.target_modules \subseteq modelLayers)) =>
    /\ ~Done("get_peft_model")
    /\ LoraKeys(params) = {}

\* C6 amended: if no target name is a layer of the model, injection fails with
\* a ValueError and no adapter parameter is attached; when injection succeeds,
\* the adapter is attached to exactly the layers that a target name matches.
C6_NoTargetFails ==
  /\ (modelLayers # {} /\ lora_config.target_modules \cap modelLayers = {}) =>
       /\ ~Done("get_peft_model")
       /\ LoraKeys(params) = {}
       /\ pc \in {"lora_config", "get_peft_model", "crashed"}
       /\ failedAt \in {"none", "lora_config", "get_peft_model"}
       /\ (failedAt = "get_peft_model" /\ error # "RuntimeError") => error = "ValueError"
  /\ Done("get_peft_model") =>
       /\ {k.layer : k \in LoraKeys(params)} = lora_config.target_modules \cap modelLayers
       /\ LoraKeys(params) # {}

C6_Witness ==
  /\ modelLayers # {}
  /\ lora_config.target_modules \cap modelLayers = {}
  /\ pc = "crashed"
  /\ failedAt = "get_peft_model"
  /\ error = "ValueError"

\* C7: after injection exactly the lora_ parameters are trainable, they sit on
\* targeted layers only, fewer parameters are trainable than exist, and every
\* base weight still has its pretrained value, also after training steps.
C7_OnlyAdaptersTrainable ==
  Done("get_peft_model") =>
    /\ \A k \in DOMAIN params : params[k].requires_grad <=> IsLora(k)
    /\ \A k \in LoraKeys(params) : k.layer \in lora_config.target_modules
    /\ Cardinality({k \in DOMAIN params : params[k].requires_grad})
         < Cardinality(DOMAIN params)
    /\ \A k \in DOMAIN params \ LoraKeys(params) :
         params[k].value = FromPretrainedBase(modelLayers)[ParamKey(k.layer, "weight", "")].value

C7_Witness ==
  /\ pc = "train"
  /\ global_step > 0
  /\ \E k \in LoraKeys(params) : k.part = "lora_B.weight" /\ params[k].value # 0

\* C8: with N examples, each completed epoch has taken ceil(N / batch size)
\* steps and the current one ceil(consumed / batch size); when training has
\* returned, num_train_epochs * ceil(N / batch size) steps were performed
\* (2 per epoch for 4 records).
C8_StepCount ==
  LET N == Len(tokenized)
      B == per_device_train_batch_size
  IN /\ global_step = epoch * CeilDiv(N, B) + CeilDiv(cursor, B)
     /\ Done("train") =>
          /\ epoch = num_train_epochs
          /\ global_step = num_train_epochs * CeilDiv(N, B)
     /\ (N = 4 /\ cursor = 0 /\ B = 2) => global_step = 2 * epoch

C8_Witness ==
  /\ Done("train")
  /\ Len(tokenized) = 3
  /\ global_step = 6

\* C9 as stated: the steps with a log record are exactly the multiples of
\* logging_steps reached so far, and the steps with a checkpoint exactly the
\* multiples of save_steps reached so far.
C9_OnlyPeriodicLogsAndCheckpoints ==
  /\ {l.step : l \in logs} = {k \in 1..global_step : k % logging_steps = 0}
  /\ {c.step : c \in checkpoints} = {k \in 1..global_step : k % save_steps = 0}

\* C9 amended: a loss record is logged exactly at the multiples of
\* logging_steps, and one more record, the run summary, when training returns;
\* a checkpoint is written exactly at the multiples of save_steps and at the
\* last step of the run; so a run interrupted before its last step has the
\* checkpoints of the multiples of save_steps it reached and no other.
C9_PeriodicAndFinal ==
  LET max_steps == num_train_epochs * CeilDiv(Len(tokenized), per_device_train_batch_size)
      final == IF global_step > 0 /\ global_step = max_steps THEN {global_step} ELSE {}
  IN /\ {l.step : l \in {x \in logs : x.kind = "loss"}}
          = {k \in 1..global_step : k % logging_steps = 0}
     /\ {l.step : l \in {x \in logs : x.kind # "loss"}}
          = IF Done("train") THEN {global_step} ELSE {}
     /\ {c.step : c \in checkpoints}
          = {k \in 1..global_step : k % save_steps = 0} \cup final
     /\ global_step < max_steps /\ global_step < save_steps => checkpoints = {}

C9_Witness ==
  /\ \E c \in checkpoints : c.step = save_steps
  /\ \E c \in checkpoints : c.step > save_steps
  /\ \E l \in logs : l.kind = "loss" /\ l.step = logging_steps

====
